---- MODULE Spec2Model ----
(***************************************************************************)
(* State-machine model of fitLTC.cpp: the Monte-Carlo estimators, the      *)
(* FitLTC objective binding, fit(), the grid traversal fitTab() and        *)
(* packTab().                                                              *)
(*                                                                         *)
(* Numbers.  A C++ float is modelled as a fixed-point integer with Unit    *)
(* steps per 1.0f (so MIN_ALPHA = 0.0001f is the integer 1), together with *)
(* the three IEEE-754 special values NaN, +Inf and -Inf.  Products and     *)
(* quotients round toward zero.  Comparisons with NaN are false, which is  *)
(* what decides std::min / std::max on a NaN argument.                     *)
(*                                                                         *)
(* LTC.h, brdf*.h and nelder_mead.h are not part of src/; the lobe, the    *)
(* reflectance capability and the optimizer are modelled from spec.md      *)
(* (sections 4.1, 4.3 and 6) and are marked as such where defined.         *)
(***************************************************************************)
EXTENDS Integers, Sequences, FiniteSets, TLC

\* ------------------------------------------------------------- bounds ----
\* largest grid size N handed to fitTab
MaxN == 3
\* stratified samples per axis (the program uses 32)
Nsample == 2
\* largest grid size handed to packTab in the packing specification
MaxPackN == 2

\* ------------------------------------------------------------ numbers ----
\* fixed-point scale: the integer that stands for 1.0f
Unit == 10000
\* const float MIN_ALPHA = 0.0001f
MIN_ALPHA == 1
\* the clamp 1.57f of the view angle
THETA_MAX == 15700
\* IEEE-754 special values
PInf == 1000000000
NInf == -1000000000
NaN == 2000000000

IsNaN(x) == x = NaN
IsInf(x) == x = PInf \/ x = NInf
IsFinite(x) == NInf < x /\ x < PInf
Abs(x) == IF x < 0 THEN -x ELSE x
Sgn(x) == IF x < 0 THEN -1 ELSE IF x > 0 THEN 1 ELSE 0

\* int -> float conversion, (float)n
ToFloat(n) == n * Unit

\* operator< on floats: false when either side is NaN
FLess(x, y) == ~IsNaN(x) /\ ~IsNaN(y) /\ x < y

FNeg(x) == IF IsNaN(x) THEN NaN ELSE -x

\* x + y when one of them is not finite
AddSpecial(x, y) ==
  IF IsNaN(x) \/ IsNaN(y) THEN NaN
  ELSE IF IsInf(x) THEN (IF IsInf(y) /\ y # x THEN NaN ELSE x)
  ELSE y

FAdd(x, y) == IF IsFinite(x) /\ IsFinite(y) THEN x + y ELSE AddSpecial(x, y)

FSub(x, y) == FAdd(x, FNeg(y))

\* |x| * |y| / Unit on magnitudes, split so that no intermediate exceeds 2^31
MulMag(x, y) == x * (y \div Unit) + (x * (y % Unit)) \div Unit

\* x * y when one of them is not finite
MulSpecial(x, y) ==
  IF IsNaN(x) \/ IsNaN(y) \/ x = 0 \/ y = 0 THEN NaN
  ELSE IF (x < 0) = (y < 0) THEN PInf ELSE NInf

FMul(x, y) ==
  IF IsFinite(x) /\ IsFinite(y)
  THEN (IF (x < 0) = (y < 0) THEN MulMag(Abs(x), Abs(y))
        ELSE -MulMag(Abs(x), Abs(y)))
  ELSE MulSpecial(x, y)

\* |x| * Unit / |y| on magnitudes, y > 0
DivMag(x, y) == (x \div y) * Unit + ((x % y) * Unit) \div y

\* x / y when one of them is not finite or y is zero: a zero divisor gives
\* NaN (0/0) or an infinity, as IEEE-754 does
DivSpecial(x, y) ==
  IF IsNaN(x) \/ IsNaN(y) THEN NaN
  ELSE IF IsInf(x) THEN (IF IsInf(y) THEN NaN
                         ELSE IF (x < 0) = (y < 0) THEN PInf ELSE NInf)
  ELSE IF IsInf(y) THEN 0
  ELSE IF x = 0 THEN NaN ELSE IF x > 0 THEN PInf ELSE NInf

FDiv(x, y) ==
  IF IsFinite(x) /\ IsFinite(y) /\ y # 0
  THEN (IF (x < 0) = (y < 0) THEN DivMag(Abs(x), Abs(y))
        ELSE -DivMag(Abs(x), Abs(y)))
  ELSE DivSpecial(x, y)

\* fabsf
FAbs(x) == IF IsNaN(x) THEN NaN ELSE Abs(x)

\* std::max<float>(a, b) is (a < b) ? b : a
StdMax(a, b) == IF FLess(a, b) THEN b ELSE a
\* std::min<float>(a, b) is (b < a) ? b : a
StdMin(a, b) == IF FLess(b, a) THEN b ELSE a

\* integer square root by bisection: the r in lo..hi with r*r <= n < (r+1)^2
RECURSIVE IsqrtIn(_, _, _)
IsqrtIn(n, lo, hi) ==
  IF lo >= hi THEN lo
  ELSE LET mid == (lo + hi + 1) \div 2
       IN IF mid * mid <= n THEN IsqrtIn(n, mid, hi) ELSE IsqrtIn(n, lo, mid - 1)

Isqrt(n) == IF n < 1048576 THEN IsqrtIn(n, 0, 1023) ELSE IsqrtIn(n, 1024, 46340)

\* sqrtf
FSqrt(x) ==
  IF IsNaN(x) \/ x < 0 THEN NaN
  ELSE IF x = PInf THEN PInf
  ELSE 10 * Isqrt(x * 100)

\* acosf at the twelfths of [0,1], in fixed-point radians
AcosTab == <<15708, 14874, 14033, 13181, 12310, 11410, 10472,
             9480, 8411, 7227, 5857, 4111, 0>>
\* cosf and sinf at the same angles
CosTab == <<0, 833, 1667, 2500, 3333, 4167, 5000,
            5833, 6667, 7500, 8333, 9167, 10000>>
SinTab == <<10000, 9965, 9860, 9682, 9428, 9091, 8660,
            8122, 7454, 6614, 5528, 3997, 0>>

\* index of the tabulated point nearest to ct in [0,1]
Twelfth(ct) == 1 + (ct * 12 + Unit \div 2) \div Unit

Acosf(ct) == IF IsNaN(ct) \/ IsInf(ct) \/ ct < 0 \/ ct > Unit THEN NaN
             ELSE AcosTab[Twelfth(ct)]

\* the tabulated angle nearest to theta
AngleIx(theta) ==
  CHOOSE k \in 1..13 : \A j \in 1..13 :
    Abs(AcosTab[k] - theta) < Abs(AcosTab[j] - theta)
    \/ (Abs(AcosTab[k] - theta) = Abs(AcosTab[j] - theta) /\ k <= j)

\* cosf(1.57f) = 0.000796 and sinf(1.57f) = 1.0 to four places
Cosf(theta) == IF IsNaN(theta) \/ IsInf(theta) THEN NaN
               ELSE IF theta = THETA_MAX THEN 8
               ELSE CosTab[AngleIx(theta)]
Sinf(theta) == IF IsNaN(theta) \/ IsInf(theta) THEN NaN
               ELSE IF theta = THETA_MAX THEN Unit
               ELSE SinTab[AngleIx(theta)]

\* ------------------------------------------------------- vec3 and mat3 ---
vec3(x, y, z) == [x |-> x, y |-> y, z |-> z]

\* component r of a vec3 (v[r] in glm)
At(v, r) == IF r = 0 THEN v.x ELSE IF r = 1 THEN v.y ELSE v.z

\* glm::mat3 is column-major: m[c][r] is column c, row r
mat3(c0, c1, c2) ==
  [c \in 0..2 |-> [r \in 0..2 |->
     At(IF c = 0 THEN c0 ELSE IF c = 1 THEN c1 ELSE c2, r)]]

\* glm mat3 * mat3
MatMul(A, B) ==
  [c \in 0..2 |-> [r \in 0..2 |->
     FAdd(FAdd(FMul(A[0][r], B[c][0]), FMul(A[1][r], B[c][1])),
          FMul(A[2][r], B[c][2]))]]

\* glm mat3 * vec3
MatVec(A, v) ==
  LET Row(r) == FAdd(FAdd(FMul(A[0][r], v.x), FMul(A[1][r], v.y)),
                     FMul(A[2][r], v.z))
  IN vec3(Row(0), Row(1), Row(2))

Dot(u, v) == FAdd(FAdd(FMul(u.x, v.x), FMul(u.y, v.y)), FMul(u.z, v.z))

Scale(s, v) == vec3(FMul(s, v.x), FMul(s, v.y), FMul(s, v.z))

VAdd(u, v) == vec3(FAdd(u.x, v.x), FAdd(u.y, v.y), FAdd(u.z, v.z))

\* glm::normalize(v) = v * inversesqrt(dot(v, v)); the zero vector gives NaN
Normalize(v) == Scale(FDiv(Unit, FSqrt(Dot(v, v))), v)

\* ------------------------------------------------ lobe (LTC.h, spec 4.1) -
\* The lobe is a record of amplitude, the three free scalars m11, m22, m13,
\* the frame X, Y, Z and the matrix M that update() derives from them.

\* LTC::update(): M = frame * (scale/skew matrix)
LTC_update(l) ==
  [l EXCEPT !.M = MatMul(mat3(l.X, l.Y, l.Z),
                         mat3(vec3(l.m11, 0, 0), vec3(0, l.m22, 0),
                              vec3(l.m13, 0, Unit)))]

\* 1/pi
InvPi == 3183

\* LTC::eval(L): the clamped cosine of the direction mapped back by the
\* inverse transform.  The third row of the inverse is the frame's Z, so the
\* density is zero exactly on the half-space dot(Z, L) <= 0; the value is
\* scaled by the amplitude (computeError divides it out again).
LTC_eval(l, L) == FMul(l.amplitude, FMul(StdMax(0, Dot(l.Z, L)), InvPi))

\* LTC::sample(U1, U2): a cosine-weighted direction of the stratified pair,
\* transformed by M and normalised
LTC_sample(l, U1, U2) ==
  LET r == FSqrt(U1)
      c == vec3(IF FLess(U2, Unit \div 2) THEN r ELSE FNeg(r), 0,
                FSqrt(FSub(Unit, U1)))
  IN Normalize(MatVec(l.M, c))

\* ------------------------------- reflectance capability (brdf.h, spec 6) -
\* Three reflectance models: one that reflects nothing, a diffuse one and a
\* glossy one whose lobe follows the mirror direction.
BrdfModels == {"black", "diffuse", "glossy"}

\* Brdf::sample(V, alpha, U1, U2)
Brdf_sample(brdf, V, alpha, U1, U2) ==
  IF brdf = "glossy"
  THEN (IF FLess(Unit \div 2, alpha) /\ FLess(U1, Unit \div 2)
        THEN vec3(0, 0, Unit)
        ELSE vec3(FNeg(V.x), 0, V.z))
  ELSE IF FLess(U1, Unit \div 2) THEN vec3(0, 0, Unit)
  ELSE IF FLess(U2, Unit \div 2) THEN vec3(6000, 0, 8000)
  ELSE vec3(-6000, 0, 8000)

\* Brdf::eval(V, L, alpha, pdf): the reflectance and the density
Brdf_eval(brdf, V, L, alpha) ==
  IF brdf = "black" \/ ~FLess(0, L.z) \/ ~FLess(0, V.z)
  THEN [eval |-> 0, pdf |-> 0]
  ELSE IF brdf = "diffuse"
  THEN [eval |-> FMul(L.z, InvPi), pdf |-> FMul(L.z, InvPi)]
  ELSE LET pdf == FAdd(FMul(L.z, InvPi), alpha)
       IN [eval |-> FMul(FSub(Unit, FMul(alpha, Unit \div 4)), pdf),
           pdf |-> pdf]

\* ------------------------------------------------------ the estimators ---
\* the stratified coordinate (i + 0.5f) / (float)Nsample
Stratum(i) == FDiv(ToFloat(i) + Unit \div 2, ToFloat(Nsample))

\* The sample loops are recursions on the pair number k = j*Nsample + i that
\* carry the accumulator.  Each step binds the new accumulator as the element
\* of a one-element set, so that it is a value before the next step starts.

\* computeNorm: the loop body for sample pair k, then the rest of the loop
RECURSIVE NormFrom(_, _, _, _, _)
NormFrom(brdf, V, alpha, k, norm) ==
  IF k >= Nsample * Nsample THEN norm
  ELSE LET U1 == Stratum(k % Nsample)
           U2 == Stratum(k \div Nsample)
           L == Brdf_sample(brdf, V, alpha, U1, U2)
           e == Brdf_eval(brdf, V, L, alpha)
           next == FAdd(norm, IF FLess(0, e.pdf) THEN FDiv(e.eval, e.pdf) ELSE 0)
       IN CHOOSE r \in { NormFrom(brdf, V, alpha, k + 1, n) : n \in {next} } : TRUE

computeNorm(brdf, V, alpha) ==
  FDiv(NormFrom(brdf, V, alpha, 0, 0), ToFloat(Nsample * Nsample))

RECURSIVE AverageFrom(_, _, _, _, _)
AverageFrom(brdf, V, alpha, k, averageDir) ==
  IF k >= Nsample * Nsample THEN averageDir
  ELSE LET U1 == Stratum(k % Nsample)
           U2 == Stratum(k \div Nsample)
           L == Brdf_sample(brdf, V, alpha, U1, U2)
           e == Brdf_eval(brdf, V, L, alpha)
           next == VAdd(averageDir,
                        IF FLess(0, e.pdf) THEN Scale(FDiv(e.eval, e.pdf), L)
                        ELSE vec3(0, 0, 0))
       IN CHOOSE r \in { AverageFrom(brdf, V, alpha, k + 1, n) : n \in {next} } : TRUE

computeAverageDir(brdf, V, alpha) ==
  LET s == AverageFrom(brdf, V, alpha, 0, vec3(0, 0, 0))
  IN Normalize([s EXCEPT !.y = 0])

\* One MIS term of computeError for the direction L: the cubed absolute
\* difference over the sum of the two densities.  divz records whether one of
\* the two divisions had a zero divisor.
ErrorTerm(ltc, brdf, V, alpha, L) ==
  LET e == Brdf_eval(brdf, V, L, alpha)
      eval_ltc == LTC_eval(ltc, L)
      pdf_ltc == FDiv(eval_ltc, ltc.amplitude)
      d == FAbs(FSub(e.eval, eval_ltc))
      cube == FMul(FMul(d, d), d)
      den == FAdd(pdf_ltc, e.pdf)
  IN [val |-> FDiv(cube, den),
      divz |-> ltc.amplitude = 0 \/ den = 0]

RECURSIVE ErrorFrom(_, _, _, _, _, _)
ErrorFrom(ltc, brdf, V, alpha, k, acc) ==
  IF k >= Nsample * Nsample THEN acc
  ELSE LET U1 == Stratum(k % Nsample)
           U2 == Stratum(k \div Nsample)
           byLtc == ErrorTerm(ltc, brdf, V, alpha, LTC_sample(ltc, U1, U2))
           byBrdf == ErrorTerm(ltc, brdf, V, alpha,
                               Brdf_sample(brdf, V, alpha, U1, U2))
           next == [val |-> FAdd(FAdd(acc.val, byLtc.val), byBrdf.val),
                    divz |-> acc.divz \/ byLtc.divz \/ byBrdf.divz]
       IN CHOOSE r \in { ErrorFrom(ltc, brdf, V, alpha, k + 1, n) : n \in {next} } : TRUE

\* computeError: the value returned, and whether a division by zero happened
computeError(ltc, brdf, V, alpha) ==
  LET acc == ErrorFrom(ltc, brdf, V, alpha, 0, [val |-> 0, divz |-> FALSE])
  IN [val |-> FDiv(acc.val, ToFloat(Nsample * Nsample)), divz |-> acc.divz]

\* ------------------------------------------------- FitLTC and fit() ------
\* float params[3]
Params(p0, p1, p2) == [i \in 0..2 |-> IF i = 0 THEN p0 ELSE IF i = 1 THEN p1 ELSE p2]

\* variant: the isotropic rule is not applied
FitLTC_update_NoIso(l, iso, params) ==
  LET m11 == StdMax(params[0], MIN_ALPHA)
      m22 == StdMax(params[1], MIN_ALPHA)
      m13 == params[2]
  IN LTC_update([l EXCEPT !.m11 = m11, !.m22 = m22, !.m13 = m13])

\* variant: the second scale is not floored
FitLTC_update_NoFloor22(l, iso, params) ==
  LET m11 == StdMax(params[0], MIN_ALPHA)
      m22 == params[1]
      m13 == params[2]
  IN IF iso
     THEN LTC_update([l EXCEPT !.m11 = m11, !.m22 = m11, !.m13 = 0])
     ELSE LTC_update([l EXCEPT !.m11 = m11, !.m22 = m22, !.m13 = m13])

\* FitLTC::update(params): floor the scales, apply the isotropic rule, update
FitLTC_update(l, iso, params) ==
  LET m11 == StdMax(params[0], MIN_ALPHA)
      m22 == StdMax(params[1], MIN_ALPHA)
      m13 == params[2]
  IN IF iso
     THEN LTC_update([l EXCEPT !.m11 = m11, !.m22 = m11, !.m13 = 0])
     ELSE LTC_update([l EXCEPT !.m11 = m11, !.m22 = m22, !.m13 = m13])

\* float startFit[3] = { ltc.m11, ltc.m22, ltc.m13 }
StartFit(l) == Params(l.m11, l.m22, l.m13)

\* parameter vectors the optimizer may hand to the objective: negative, zero
\* and below-floor components included
ProposalVecs ==
  { Params(-5000, 0, 2500), Params(0, -1, -3000), Params(8000, 12000, 1500) }

\* vectors the optimizer may return
ResultVecs ==
  << Params(-5000, 0, 2500), Params(0, -1, -3000), Params(8000, 12000, 1500),
     Params(Unit, Unit, 0), Params(3000, 20000, -2000), Params(1, 2, 7),
     Params(6000, 6000, 900) >>

\* the optimizers the model tries: each is one deterministic function
Optimizers == {0, 1}

\* a small code of a float, for mixing
Code(x) == IF IsNaN(x) THEN 5 ELSE IF IsInf(x) THEN 7 ELSE x % 89

\* NelderMead<3>(resultFit, startFit, epsilon, 1e-5f, 100, fitter): nelder_mead.h
\* is not in src/.  The optimizer is deterministic: what it returns is a
\* function of the start vector and of the objective, and the objective is
\* fixed by the fitter's bindings (reflectance model, V, alpha, isotropic) and
\* by the lobe fields update() does not overwrite (frame and amplitude).  The
\* model takes one such function per element of Optimizers.
NelderMead(nm, start, l, brdf, iso, theta, alpha) ==
  LET h == nm + Code(start[0]) + 3 * Code(start[1]) + 5 * Code(start[2])
              + 7 * Code(l.amplitude) + 11 * Code(l.X.x) + 13 * Code(l.Z.x)
              + 17 * Code(l.Z.z) + 19 * Code(theta) + 23 * Code(alpha)
              + (IF iso THEN 1 ELSE 0)
              + (IF brdf = "black" THEN 0 ELSE IF brdf = "diffuse" THEN 2 ELSE 4)
  IN ResultVecs[1 + (h % Len(ResultVecs))]

\* ------------------------------------------------------------ fitTab -----
\* float ct = t / float(N-1); theta = std::min<float>(1.57f, acosf(ct))
CellTheta(n, tt) == StdMin(THETA_MAX, Acosf(FDiv(ToFloat(tt), ToFloat(n - 1))))

\* const vec3 V = vec3(sinf(theta), 0, cosf(theta))
ViewDir(th) == vec3(Sinf(th), 0, Cosf(th))

\* float roughness = a / float(N-1); alpha = std::max<float>(roughness^2, MIN_ALPHA)
CellAlpha(n, aa) ==
  LET roughness == FDiv(ToFloat(aa), ToFloat(n - 1))
  IN StdMax(FMul(roughness, roughness), MIN_ALPHA)

\* variant: the seed is read from cell (a+1, 0), the cell fitted just before
EdgeGuess_PrevCell(l, tb, n, aa, tt) ==
  LET m11 == IF aa = n - 1 THEN Unit
             ELSE StdMax(tb[aa + 1][0][0], MIN_ALPHA)
      m22 == IF aa = n - 1 THEN Unit
             ELSE StdMax(tb[aa + 1][1][1], MIN_ALPHA)
  IN LTC_update([l EXCEPT !.X = vec3(Unit, 0, 0), !.Y = vec3(0, Unit, 0),
                          !.Z = vec3(0, 0, Unit),
                          !.m11 = m11, !.m22 = m22, !.m13 = 0])

\* variant: the seed is read from the cell being fitted, not yet written
EdgeGuess_Unwritten(l, tb, n, aa, tt) ==
  LET m11 == IF aa = n - 1 THEN Unit
             ELSE StdMax(tb[aa + tt * n][0][0], MIN_ALPHA)
      m22 == IF aa = n - 1 THEN Unit
             ELSE StdMax(tb[aa + tt * n][1][1], MIN_ALPHA)
  IN LTC_update([l EXCEPT !.X = vec3(Unit, 0, 0), !.Y = vec3(0, Unit, 0),
                          !.Z = vec3(0, 0, Unit),
                          !.m11 = m11, !.m22 = m22, !.m13 = 0])

\* variant: the seed is the scales the lobe retained from the cell before
EdgeGuess_Retained(l, tb, n, aa, tt) ==
  LET m11 == IF aa = n - 1 THEN Unit ELSE StdMax(l.m11, MIN_ALPHA)
      m22 == IF aa = n - 1 THEN Unit ELSE StdMax(l.m22, MIN_ALPHA)
  IN LTC_update([l EXCEPT !.X = vec3(Unit, 0, 0), !.Y = vec3(0, Unit, 0),
                          !.Z = vec3(0, 0, Unit),
                          !.m11 = m11, !.m22 = m22, !.m13 = 0])

\* the branch t == N-1: identity frame, seeded scales, zero skew, update
EdgeGuess(l, tb, n, aa, tt) ==
  LET m11 == IF aa = n - 1 THEN Unit
             ELSE StdMax(tb[aa + 1 + tt * n][0][0], MIN_ALPHA)
      m22 == IF aa = n - 1 THEN Unit
             ELSE StdMax(tb[aa + 1 + tt * n][1][1], MIN_ALPHA)
  IN LTC_update([l EXCEPT !.X = vec3(Unit, 0, 0), !.Y = vec3(0, Unit, 0),
                          !.Z = vec3(0, 0, Unit),
                          !.m11 = m11, !.m22 = m22, !.m13 = 0])

\* variant: an interior cell also resets the three scalars
InteriorGuess_Reset(l, averageDir) ==
  LET L == averageDir
  IN LTC_update([l EXCEPT !.X = vec3(L.z, 0, FNeg(L.x)), !.Y = vec3(0, Unit, 0),
                          !.Z = L, !.m11 = Unit, !.m22 = Unit, !.m13 = 0])

\* the branch t < N-1: re-orient the frame on the average direction, update
InteriorGuess(l, averageDir) ==
  LET L == averageDir
  IN LTC_update([l EXCEPT !.X = vec3(L.z, 0, FNeg(L.x)), !.Y = vec3(0, Unit, 0),
                          !.Z = L])

\* lines 196-250 of the loop body: the lobe handed to fit() for cell (aa, tt)
FirstGuess(l, tb, n, brdf, aa, tt) ==
  LET th == CellTheta(n, tt)
      V == ViewDir(th)
      al == CellAlpha(n, aa)
      l1 == [l EXCEPT !.amplitude = computeNorm(brdf, V, al)]
      averageDir == computeAverageDir(brdf, V, al)
  IN IF tt = n - 1 THEN EdgeGuess(l1, tb, n, aa, tt)
     ELSE InteriorGuess(l1, averageDir)

\* tab[a + t*N] = ltc.M, then the four "useless" coefficients set to 0
KillCoefs(M) ==
  [M EXCEPT ![0][1] = 0, ![1][0] = 0, ![2][1] = 0, ![1][2] = 0]

\* variant: the roughness index is the major one
Index_AMajor(n, aa, tt) == aa * n + tt

\* the table index of cell (aa, tt)
Index(n, aa, tt) == aa + tt * n

\* ------------------------------------------------------------- state -----
VARIABLES
  N, brdf, nm,             \* grid size, reflectance model, optimizer
  ltc,                     \* the LTC object of fitTab
  tab, tabAmplitude,       \* the two output arrays
  a, t, pc,                \* loop counters and position in fitTab
  theta, V, alpha, isotropic, \* locals of the loop body
  startFit, resultFit,     \* locals of fit()
  evaluated, lastParams, lastError, \* objective calls made by the optimizer
  updCall,                 \* which call of update() was made last
  visited, writes, resultLog,   \* history: cells stored, stores per cell, results
  gridDivZero, errDivZero, \* a division by zero happened (grid, computeError)
  run, tabRef, ampRef,     \* second run: the first run's tables
  sPhase, sA, sLtc, sCol, sTab, sAmp,  \* the edge-first schedule
  pN, pTab, pAmp, tex1, tex2, pI       \* packTab

fitVars == <<N, brdf, nm, ltc, tab, tabAmplitude, a, t, pc, theta, V, alpha,
             isotropic, startFit, resultFit, evaluated, lastParams, lastError,
             updCall, visited, writes, resultLog, gridDivZero, errDivZero>>
runVars == <<run, tabRef, ampRef>>
schedVars == <<sPhase, sA, sLtc, sCol, sTab, sAmp>>
packVars == <<pN, pTab, pAmp, tex1, tex2, pI>>
vars == <<fitVars, runVars, schedVars, packVars>>

\* what uninitialised memory may hold
JunkVals == {-7777, 31415}

JunkVec(j) == vec3(j, j, j)
JunkMat(j) == mat3(JunkVec(j), JunkVec(j), JunkVec(j))
\* LTC ltc; before any field is assigned by fitTab
JunkLobe(j) ==
  [amplitude |-> j, m11 |-> j, m22 |-> j, m13 |-> j,
   X |-> JunkVec(j), Y |-> JunkVec(j), Z |-> JunkVec(j), M |-> JunkMat(j)]
\* new mat3[N*N], new vec2[N*N]
JunkTab(n, j) == [i \in 0..(n * n - 1) |-> JunkMat(j)]
JunkAmp(n, j) == [i \in 0..(n * n - 1) |-> [x |-> j, y |-> j]]

NoParams == Params(0, 0, 0)

InitFit ==
  /\ N \in 1..MaxN
  /\ brdf \in BrdfModels
  /\ nm \in Optimizers
  /\ \E j \in JunkVals :
       /\ ltc = JunkLobe(j)
       /\ tab = JunkTab(N, j)
       /\ tabAmplitude = JunkAmp(N, j)
  /\ a = N - 1 /\ t = N - 1 /\ pc = "cell"
  /\ theta = 0 /\ V = vec3(0, 0, 0) /\ alpha = 0 /\ isotropic = FALSE
  /\ startFit = NoParams /\ resultFit = NoParams
  /\ evaluated = FALSE /\ lastParams = NoParams /\ lastError = 0
  /\ updCall = "none"
  /\ visited = <<>> /\ writes = [i \in 0..(N * N - 1) |-> 0] /\ resultLog = <<>>
  /\ gridDivZero = FALSE /\ errDivZero = FALSE

InitRun == run = 1 /\ tabRef = <<>> /\ ampRef = <<>>

InitSched ==
  /\ sPhase = "idle" /\ sA = 0 /\ sLtc = JunkLobe(0) /\ sCol = <<>>
  /\ sTab = <<>> /\ sAmp = <<>>

InitPackIdle ==
  /\ pN = 0 /\ pTab = <<>> /\ pAmp = <<>> /\ tex1 = <<>> /\ tex2 = <<>> /\ pI = 0

Init == InitFit /\ InitRun /\ InitSched /\ InitPackIdle

\* Loop body up to the call of fit(), and fit()'s first line: derive the
\* angle and the roughness, run the two estimators, make the first guess.
CellBegin ==
  /\ pc = "cell"
  /\ theta' = CellTheta(N, t)
  /\ V' = ViewDir(theta')
  /\ alpha' = CellAlpha(N, a)
  /\ gridDivZero' = (gridDivZero \/ ToFloat(N - 1) = 0)
  /\ ltc' = FirstGuess(ltc, tab, N, brdf, a, t)
  /\ isotropic' = (t = N - 1)
  /\ updCall' = (IF t = N - 1 THEN "seed" ELSE "reorient")
  /\ startFit' = StartFit(ltc')
  /\ evaluated' = FALSE
  /\ pc' = "fit"
  /\ UNCHANGED <<N, brdf, nm, tab, tabAmplitude, a, t, resultFit, lastParams,
                 lastError, visited, writes, resultLog, errDivZero>>
  /\ UNCHANGED <<runVars, schedVars, packVars>>

\* The optimizer calls the objective, any number of times:
\* FitLTC::operator()(params)
Evaluate ==
  /\ pc = "fit"
  /\ \E p \in ProposalVecs :
       /\ ltc' = FitLTC_update(ltc, isotropic, p)
       /\ lastParams' = p
  /\ LET e == computeError(ltc', brdf, V, alpha)
     IN /\ lastError' = e.val
        /\ errDivZero' = (errDivZero \/ e.divz)
  /\ updCall' = "eval"
  /\ evaluated' = TRUE
  /\ UNCHANGED <<N, brdf, nm, tab, tabAmplitude, a, t, pc, theta, V, alpha,
                 isotropic, startFit, resultFit, visited, writes, resultLog,
                 gridDivZero>>
  /\ UNCHANGED <<runVars, schedVars, packVars>>

\* The optimizer returns and fit() updates the lobe with its result.  The
\* frame and the amplitude are those fit() was entered with.
FitFinish ==
  /\ pc = "fit"
  /\ evaluated
  /\ resultFit' = NelderMead(nm, startFit, ltc, brdf, isotropic, theta, alpha)
  /\ ltc' = FitLTC_update(ltc, isotropic, resultFit')
  /\ updCall' = "final"
  /\ pc' = "store"
  /\ UNCHANGED <<N, brdf, nm, tab, tabAmplitude, a, t, theta, V, alpha, isotropic,
                 startFit, evaluated, lastParams, lastError, visited, writes,
                 resultLog, gridDivZero, errDivZero>>
  /\ UNCHANGED <<runVars, schedVars, packVars>>

\* "copy data", "kill useless coefs", and the loop counters' step
Store ==
  /\ pc = "store"
  /\ tab' = [tab EXCEPT ![Index(N, a, t)] = KillCoefs(ltc.M)]
  /\ tabAmplitude' = [tabAmplitude EXCEPT
                        ![Index(N, a, t)] = [x |-> ltc.amplitude, y |-> 0]]
  /\ visited' = Append(visited, Index(N, a, t))
  /\ writes' = [writes EXCEPT ![Index(N, a, t)] = @ + 1]
  /\ resultLog' = (Index(N, a, t) :> resultFit) @@ resultLog
  /\ IF t > 0 THEN a' = a /\ t' = t - 1 /\ pc' = "cell"
     ELSE IF a > 0 THEN a' = a - 1 /\ t' = N - 1 /\ pc' = "cell"
     ELSE a' = -1 /\ t' = -1 /\ pc' = "done"
  /\ UNCHANGED <<N, brdf, nm, ltc, theta, V, alpha, isotropic, startFit,
                 resultFit, evaluated, lastParams, lastError, updCall,
                 gridDivZero, errDivZero>>
  /\ UNCHANGED <<runVars, schedVars, packVars>>

Next == CellBegin \/ Evaluate \/ FitFinish \/ Store

Spec == Init /\ [][Next]_vars

\* ------------------------------------------------ properties of fitTab ---
\* the larger of two finite numbers
Max2(x, y) == IF x < y THEN y ELSE x

\* the k-th cell of the traversal a = n-1..0, t = n-1..0 (k from 1), as an index
OrderIx(n, k) == (n - 1 - ((k - 1) \div n)) + (n - 1 - ((k - 1) % n)) * n

\* the scalars a lobe holds after the final update with the result r
Floored(r, iso) ==
  IF iso THEN Params(Max2(r[0], MIN_ALPHA), Max2(r[0], MIN_ALPHA), 0)
  ELSE Params(Max2(r[0], MIN_ALPHA), Max2(r[1], MIN_ALPHA), r[2])

\* C1: the cells are stored in the order a = N-1..0 and, for each a,
\* t = N-1..0; the cell being worked on is the next one of that order; every
\* cell stored so far was stored exactly once and holds the fitted matrix
\* (after the clean-up) and amplitude; no other cell was stored; and when
\* fitTab returns all N*N cells have been stored.
C1_TraversalOrder ==
  /\ Len(visited) <= N * N
  /\ \A k \in 1..Len(visited) : visited[k] = OrderIx(N, k)
  /\ \A i \in 0..(N * N - 1) :
       writes[i] = (IF \E k \in 1..Len(visited) : visited[k] = i THEN 1 ELSE 0)
  /\ DOMAIN resultLog = { visited[k] : k \in 1..Len(visited) }
  /\ pc # "done" => a + t * N = OrderIx(N, Len(visited) + 1)
  /\ (pc \in {"cell", "done"} /\ Len(visited) > 0) =>
       /\ tab[visited[Len(visited)]] = KillCoefs(ltc.M)
       /\ tabAmplitude[visited[Len(visited)]] = [x |-> ltc.amplitude, y |-> 0]
  /\ pc = "done" => /\ Len(visited) = N * N
                    /\ \A i \in 0..(N * N - 1) : writes[i] = 1

\* C1 witness: fitTab has returned for the largest grid
C1_Witness == pc = "done" /\ N = MaxN /\ Len(visited) = MaxN * MaxN

\* C2: at an interior cell (t < N-1) the start vector of the optimizer is the
\* floored result of the fit of cell (a, t+1) (with the isotropic rule when
\* t+1 = N-1), and the lobe's scalars at the entry of fit() are that vector.
C2_WarmStart ==
  (pc = "fit" /\ t < N - 1) =>
     /\ (a + (t + 1) * N) \in DOMAIN resultLog
     /\ startFit = Floored(resultLog[a + (t + 1) * N], t + 1 = N - 1)
     /\ ~evaluated => StartFit(ltc) = startFit

\* C2 witness: an interior cell whose predecessor is interior too, entered
\* with a start vector that is not the last candidate the objective saw
C2_Witness ==
  /\ pc = "fit" /\ ~evaluated /\ t < N - 2
  /\ startFit # Floored(lastParams, FALSE)
  /\ startFit[2] # 0

\* C3: at an edge cell (t = N-1), before the optimizer runs, the frame is the
\* identity and the skew 0; the scale seeds are 1 at a = N-1 and otherwise
\* the floored [0][0] and [1][1] entries of table cell (a+1, N-1), which is
\* in range, was stored N stores ago, and holds the scales the fit of
\* (a+1, N-1) ended with.
C3_EdgeSeed ==
  (pc = "fit" /\ ~evaluated /\ t = N - 1) =>
     /\ ltc.X = vec3(Unit, 0, 0) /\ ltc.Y = vec3(0, Unit, 0)
     /\ ltc.Z = vec3(0, 0, Unit)
     /\ ltc.m13 = 0
     /\ startFit = StartFit(ltc)
     /\ a = N - 1 => (startFit[0] = Unit /\ startFit[1] = Unit)
     /\ a < N - 1 =>
          LET src == a + 1 + (N - 1) * N
          IN /\ src \in 0..(N * N - 1)
             /\ writes[src] = 1
             /\ Len(visited) >= N /\ visited[Len(visited) - N + 1] = src
             /\ startFit[0] = Max2(tab[src][0][0], MIN_ALPHA)
             /\ startFit[1] = Max2(tab[src][1][1], MIN_ALPHA)
             /\ tab[src][0][0] = Max2(resultLog[src][0], MIN_ALPHA)
             /\ tab[src][1][1] = Max2(resultLog[src][0], MIN_ALPHA)

\* C3 witness: an edge cell below the roughest one, seeded from the table
\* with a scale that is not 1
C3_Witness ==
  /\ pc = "fit" /\ ~evaluated /\ t = N - 1 /\ a < N - 1 /\ N = MaxN
  /\ startFit[0] # Unit

\* C4: the search is isotropic exactly at t = N-1; there, after every
\* objective evaluation and after the final update, the lobe has m13 = 0 and
\* m11 = m22 = the floored first component; at t < N-1 the three scalars
\* after the final update are the floored components of the result.
C4_Isotropic ==
  /\ pc \in {"fit", "store"} => (isotropic <=> t = N - 1)
  /\ ((pc = "fit" /\ evaluated) \/ pc = "store") /\ t = N - 1 =>
        ltc.m13 = 0 /\ ltc.m11 = ltc.m22
  /\ pc = "fit" /\ evaluated /\ t = N - 1 =>
        ltc.m11 = Max2(lastParams[0], MIN_ALPHA)
  /\ pc = "store" /\ t = N - 1 => ltc.m11 = Max2(resultFit[0], MIN_ALPHA)
  /\ pc = "store" /\ t < N - 1 =>
        /\ ltc.m11 = Max2(resultFit[0], MIN_ALPHA)
        /\ ltc.m22 = Max2(resultFit[1], MIN_ALPHA)
        /\ ltc.m13 = resultFit[2]

\* C4 witness: an edge fit finished on a result with a skew and two
\* different scales, after a candidate that had them too
C4_Witness ==
  /\ pc = "store" /\ t = N - 1
  /\ resultFit[2] # 0 /\ resultFit[0] # resultFit[1]
  /\ lastParams[2] # 0 /\ lastParams[0] # lastParams[1]

\* C7: with N = 1 the single cell (0,0) is fitted as the edge and roughest
\* cell and the table is fully populated, the angle and the roughness are
\* well defined with theta <= 1.57 and alpha >= MIN_ALPHA, and no division
\* by zero occurs in deriving them.
C7_SingleCell ==
  (N = 1 /\ pc # "cell") =>
     /\ isotropic /\ startFit = Params(Unit, Unit, 0)
     /\ pc = "done" => writes[0] = 1
     /\ ~IsNaN(theta) /\ theta <= THETA_MAX
     /\ ~IsNaN(alpha) /\ alpha >= MIN_ALPHA
     /\ ~gridDivZero

\* C8: after every call of update() made during fitTab both scales are
\* numbers not below MIN_ALPHA.
C8_ScaleFloor ==
  updCall # "none" =>
     /\ IsFinite(ltc.m11) /\ ltc.m11 >= MIN_ALPHA
     /\ IsFinite(ltc.m22) /\ ltc.m22 >= MIN_ALPHA

\* C8 witness: an objective evaluation of an interior cell on a candidate
\* with a negative and a zero scale
C8_Witness ==
  /\ updCall = "eval" /\ ~isotropic
  /\ lastParams[0] < 0 /\ lastParams[1] = 0

\* C9: computeError never divides by zero (neither by the amplitude nor by
\* the sum of the two densities).  The grids with N > 1 are taken, where the
\* angle and the roughness are numbers, so that a division by zero found is
\* computeError's own.
C9_NoDivZero == N > 1 => ~errDivZero

\* ------------------------------------------------------ a second run -----
\* what the memory of a second run holds before fitTab assigns it: not what
\* the first run started from
RerunJunk == {4242}

\* fitTab is called again with the same N and reflectance model, on a lobe
\* and on arrays with other initial contents; the first run's tables are kept
\* for comparison.
Rerun ==
  /\ pc = "done" /\ run = 1
  /\ run' = 2 /\ tabRef' = tab /\ ampRef' = tabAmplitude
  /\ \E j \in RerunJunk :
       /\ ltc' = JunkLobe(j)
       /\ tab' = JunkTab(N, j)
       /\ tabAmplitude' = JunkAmp(N, j)
  /\ a' = N - 1 /\ t' = N - 1 /\ pc' = "cell"
  /\ evaluated' = FALSE /\ updCall' = "none"
  /\ visited' = <<>> /\ writes' = [i \in 0..(N * N - 1) |-> 0] /\ resultLog' = <<>>
  /\ UNCHANGED <<N, brdf, nm, theta, V, alpha, isotropic, startFit, resultFit,
                 lastParams, lastError, gridDivZero, errDivZero>>
  /\ UNCHANGED <<schedVars, packVars>>

NextTwoRuns == Next \/ Rerun

SpecTwoRuns == Init /\ [][NextTwoRuns]_vars

\* the lobe fitTab hands to the optimizer at the first cell (N-1, N-1)
FirstLobe ==
  [amplitude |-> computeNorm(brdf, V, alpha), m11 |-> Unit, m22 |-> Unit,
   m13 |-> 0, X |-> vec3(Unit, 0, 0), Y |-> vec3(0, Unit, 0),
   Z |-> vec3(0, 0, Unit),
   M |-> mat3(vec3(Unit, 0, 0), vec3(0, Unit, 0), vec3(0, 0, Unit))]

\* C6: a second run from other initial contents of the lobe and of the arrays
\* stores, cell by cell, what the first run stored, and ends with identical
\* tab and tabAmplitude; at the first cell every lobe field has been assigned
\* before the optimizer is called; an edge cell reads a table cell that was
\* already written.
C6_Deterministic ==
  /\ run = 2 =>
       \A k \in 1..Len(visited) :
          /\ tab[visited[k]] = tabRef[visited[k]]
          /\ tabAmplitude[visited[k]] = ampRef[visited[k]]
  /\ (run = 2 /\ pc = "done") => (tab = tabRef /\ tabAmplitude = ampRef)
  /\ (pc = "fit" /\ ~evaluated /\ visited = <<>>) => ltc = FirstLobe
  /\ (pc = "fit" /\ t = N - 1 /\ a < N - 1) => writes[a + 1 + (N - 1) * N] = 1

\* C6 witness: the second run has returned for the largest grid, having
\* started from other contents than the tables it reproduces
C6_Witness ==
  /\ run = 2 /\ pc = "done" /\ N = MaxN
  /\ \A i \in 0..(N * N - 1) : \A j \in RerunJunk : tabRef[i] # JunkMat(j)

\* ------------------------------------------- the edge-first schedule -----
\* One whole cell: first guess, fit, final update.  The objective
\* evaluations in between are left out: the final update overwrites the three
\* scalars they set, and they set nothing else.
FitCell(l, tb, n, bf, opt, aa, tt) ==
  CHOOSE l2 \in
    { FitLTC_update(g, tt = n - 1,
                    NelderMead(opt, StartFit(g), g, bf, tt = n - 1,
                               CellTheta(n, tt), CellAlpha(n, aa))) :
        g \in { FirstGuess(l, tb, n, bf, aa, tt) } } : TRUE

\* the lobe of roughness index c, re-seeded from its edge cell in the table:
\* the three scalars are read back, nothing else is carried over
Reseed(l, tb, n, c) ==
  [l EXCEPT !.m11 = tb[c + (n - 1) * n][0][0],
                      !.m22 = tb[c + (n - 1) * n][1][1],
                      !.m13 = tb[c + (n - 1) * n][2][0]]

\* what the schedule's lobes and arrays hold before they are assigned
SchedJunk == {977}

\* after the sequential run: start the schedule on fresh arrays
SchedStart ==
  /\ pc = "done" /\ sPhase = "idle"
  /\ sPhase' = "edges" /\ sA' = N - 1
  /\ \E j \in SchedJunk :
       /\ sLtc' = JunkLobe(j)
       /\ sTab' = JunkTab(N, j) /\ sAmp' = JunkAmp(N, j)
       /\ sCol' = [c \in 0..(N - 1) |-> [ltc |-> JunkLobe(j), t |-> N - 2]]
  /\ UNCHANGED <<fitVars, runVars, packVars>>

\* phase 1: the edge cells (a, N-1), serially, a = N-1 down to 0, one lobe
SchedEdge ==
  /\ sPhase = "edges"
  /\ \E l2 \in { FitCell(sLtc, sTab, N, brdf, nm, sA, N - 1) } :
        /\ sLtc' = l2
        /\ sTab' = [sTab EXCEPT ![sA + (N - 1) * N] = KillCoefs(l2.M)]
        /\ sAmp' = [sAmp EXCEPT ![sA + (N - 1) * N] = [x |-> l2.amplitude, y |-> 0]]
  /\ IF sA > 0
     THEN sA' = sA - 1 /\ sPhase' = "edges" /\ sCol' = sCol
     ELSE /\ sA' = sA /\ sPhase' = "fan"
          /\ sCol' = [c \in 0..(N - 1) |->
                        [ltc |-> Reseed(sCol[c].ltc, sTab', N, c), t |-> N - 2]]
  /\ UNCHANGED <<fitVars, runVars, packVars>>

\* phase 2: any roughness index c fits its next interior cell with its own lobe
SchedInterior ==
  /\ sPhase = "fan"
  /\ \E c \in 0..(N - 1) :
       /\ sCol[c].t >= 0
       /\ \E l2 \in { FitCell(sCol[c].ltc, sTab, N, brdf, nm, c, sCol[c].t) } :
          LET i == c + sCol[c].t * N
          IN /\ sCol' = [sCol EXCEPT ![c] = [ltc |-> l2, t |-> sCol[c].t - 1]]
             /\ sTab' = [sTab EXCEPT ![i] = KillCoefs(l2.M)]
             /\ sAmp' = [sAmp EXCEPT ![i] = [x |-> l2.amplitude, y |-> 0]]
  /\ UNCHANGED <<sPhase, sA, sLtc>>
  /\ UNCHANGED <<fitVars, runVars, packVars>>

SchedFinish ==
  /\ sPhase = "fan"
  /\ \A c \in 0..(N - 1) : sCol[c].t < 0
  /\ sPhase' = "done"
  /\ UNCHANGED <<sA, sLtc, sCol, sTab, sAmp>>
  /\ UNCHANGED <<fitVars, runVars, packVars>>

NextSchedule == Next \/ SchedStart \/ SchedEdge \/ SchedInterior \/ SchedFinish

SpecSchedule == Init /\ [][NextSchedule]_vars

\* C10: the schedule that fits the edge cells serially and then the interior
\* cells of each roughness index in decreasing t, the indices interleaved in
\* any order and each with its own lobe re-seeded from its edge cell, stores
\* in every cell what the sequential traversal stored there.
C10_ScheduleEquivalent ==
  /\ sPhase \in {"edges", "fan", "done"} =>
       \A c \in 0..(N - 1) :
          (sPhase # "edges" \/ c > sA) =>
             /\ sTab[c + (N - 1) * N] = tab[c + (N - 1) * N]
             /\ sAmp[c + (N - 1) * N] = tabAmplitude[c + (N - 1) * N]
  /\ sPhase \in {"fan", "done"} =>
       \A c \in 0..(N - 1) : \A tt \in 0..(N - 2) :
          tt > sCol[c].t =>
             /\ sTab[c + tt * N] = tab[c + tt * N]
             /\ sAmp[c + tt * N] = tabAmplitude[c + tt * N]
  /\ sPhase = "done" => (sTab = tab /\ sAmp = tabAmplitude)

\* C10 witness: the schedule has finished on the largest grid, the smoothest
\* roughness index having finished its interior cells before the roughest
\* one started
C10_Witness ==
  /\ sPhase = "done" /\ N = MaxN /\ sTab = tab /\ sAmp = tabAmplitude
  /\ \A i \in 0..(N * N - 1) : \A j \in SchedJunk : tab[i] # JunkMat(j)

\* ------------------------------------------------------------ packTab ----
\* packTab's arithmetic is modelled on integers, exactly: the products of the
\* entries are not rounded.
PackMat(ma, mb, mc, md, me) ==
  [c \in 0..2 |-> [r \in 0..2 |->
     IF c = 0 /\ r = 0 THEN ma ELSE IF c = 0 /\ r = 2 THEN mb
     ELSE IF c = 1 /\ r = 1 THEN mc ELSE IF c = 2 /\ r = 0 THEN md
     ELSE IF c = 2 /\ r = 2 THEN me ELSE 0]]

\* the cells packTab is run on: a matrix and an amplitude pair
PackCells ==
  { [m |-> PackMat(1, -2, 3, 4, 5), amp |-> [x |-> 7, y |-> 0]],
    [m |-> PackMat(0, 1, -1, 2, 0), amp |-> [x |-> 0, y |-> 9]],
    [m |-> PackMat(1, 2, 3, 2, 4), amp |-> [x |-> -3, y |-> 0]] }

\* variant: t1 without its sign
PackTerms_SignSlip(m) ==
  LET ma == m[0][0]
      mb == m[0][2]
      mc == m[1][1]
      md == m[2][0]
      me == m[2][2]
  IN [t0 |-> mc * me, t1 |-> mb * mc, t2 |-> ma * me - mb * md,
      t3 |-> -mc * md, t4 |-> ma * mc]

\* the five terms t0..t4 of the loop body
PackTerms(m) ==
  LET ma == m[0][0]
      mb == m[0][2]
      mc == m[1][1]
      md == m[2][0]
      me == m[2][2]
  IN [t0 |-> mc * me, t1 |-> -mb * mc, t2 |-> ma * me - mb * md,
      t3 |-> -mc * md, t4 |-> ma * mc]

\* what tex1 and tex2 hold before packTab writes them
TexJunk == {55}

InitPack ==
  /\ pN \in 1..MaxPackN
  /\ \E cells \in [0..(pN * pN - 1) -> PackCells] :
       /\ pTab = [i \in 0..(pN * pN - 1) |-> cells[i].m]
       /\ pAmp = [i \in 0..(pN * pN - 1) |-> cells[i].amp]
  /\ \E j \in TexJunk :
       /\ tex1 = [i \in 0..(pN * pN - 1) |-> [x |-> j, y |-> j, z |-> j, w |-> j]]
       /\ tex2 = [i \in 0..(pN * pN - 1) |-> [x |-> j, y |-> j]]
  /\ pI = 0

\* the fitting part does not run in the packing specification
InitFitIdle ==
  /\ N = 1 /\ brdf = "black" /\ nm = 0
  /\ ltc = JunkLobe(0) /\ tab = JunkTab(1, 0) /\ tabAmplitude = JunkAmp(1, 0)
  /\ a = -1 /\ t = -1 /\ pc = "idle"
  /\ theta = 0 /\ V = vec3(0, 0, 0) /\ alpha = 0 /\ isotropic = FALSE
  /\ startFit = NoParams /\ resultFit = NoParams
  /\ evaluated = FALSE /\ lastParams = NoParams /\ lastError = 0
  /\ updCall = "none"
  /\ visited = <<>> /\ writes = [i \in 0..0 |-> 0] /\ resultLog = <<>>
  /\ gridDivZero = FALSE /\ errDivZero = FALSE

\* one iteration of packTab's loop
PackStep ==
  /\ pI < pN * pN
  /\ LET p == PackTerms(pTab[pI])
     IN /\ tex1' = [tex1 EXCEPT ![pI] = [x |-> p.t0, y |-> p.t1, z |-> p.t2, w |-> p.t3]]
        /\ tex2' = [tex2 EXCEPT ![pI] = [x |-> p.t4, y |-> pAmp[pI].x]]
  /\ pI' = pI + 1
  /\ UNCHANGED <<pN, pTab, pAmp>>
  /\ UNCHANGED <<fitVars, runVars, schedVars>>

NextPack == PackStep

InitPacking == InitFitIdle /\ InitRun /\ InitSched /\ InitPack

SpecPack == InitPacking /\ [][NextPack]_vars

\* integer 3x3 product and determinant, column-major like glm
MatMulInt(A, B) ==
  [c \in 0..2 |-> [r \in 0..2 |->
     A[0][r] * B[c][0] + A[1][r] * B[c][1] + A[2][r] * B[c][2]]]

DetInt(A) ==
    A[0][0] * (A[1][1] * A[2][2] - A[2][1] * A[1][2])
  - A[1][0] * (A[0][1] * A[2][2] - A[2][1] * A[0][2])
  + A[2][0] * (A[0][1] * A[1][2] - A[1][1] * A[0][2])

ScaledIdentity(d) == [c \in 0..2 |-> [r \in 0..2 |-> IF c = r THEN d ELSE 0]]

\* the packed terms of cell i put back in the sparsity pattern of tab[i]
Unpacked(i) == PackMat(tex1[i].x, tex1[i].y, tex1[i].z, tex1[i].w, tex2[i].x)

\* C5: for every cell packTab has processed, the five packed terms are
\* (c*e, -b*c, a*e - b*d, -c*d, a*c), their matrix times tab[i] is det(tab[i])
\* times the identity, and tex2[i].y is tabAmplitude[i].x; a step writes the
\* outputs of its own cell only and leaves tab and tabAmplitude unchanged.
C5_PackTab ==
  /\ [](\A i \in 0..(pI - 1) :
          /\ tex1[i] = [x |-> pTab[i][1][1] * pTab[i][2][2],
                        y |-> -(pTab[i][0][2] * pTab[i][1][1]),
                        z |-> pTab[i][0][0] * pTab[i][2][2]
                              - pTab[i][0][2] * pTab[i][2][0],
                        w |-> -(pTab[i][1][1] * pTab[i][2][0])]
          /\ tex2[i].x = pTab[i][0][0] * pTab[i][1][1]
          /\ MatMulInt(Unpacked(i), pTab[i]) = ScaledIdentity(DetInt(pTab[i]))
          /\ MatMulInt(pTab[i], Unpacked(i)) = ScaledIdentity(DetInt(pTab[i]))
          /\ tex2[i].y = pAmp[i].x)
  /\ [][/\ pTab' = pTab /\ pAmp' = pAmp
        /\ \A i \in DOMAIN tex1 :
             i # pI => (tex1'[i] = tex1[i] /\ tex2'[i] = tex2[i])]_vars

\* C5 witness: packTab has finished a table that holds a cell with all five
\* entries non-zero and a singular cell
C5_Witness ==
  /\ pc = "idle" /\ pI = pN * pN /\ pN = MaxPackN
  /\ \E i \in 0..(pI - 1) : pTab[i] = PackMat(1, -2, 3, 4, 5) /\ tex1[i].y = 6
  /\ \E i \in 0..(pI - 1) : DetInt(pTab[i]) = 0

====
